---- MODULE Spec2Model ----
(***************************************************************************)
(* Model of the stream extractors of mediaflow_proxy/extractors:           *)
(* VidozaExtractor, TurboVidPlayExtractor and VKExtractor.                 *)
(*                                                                         *)
(* A Python string is modelled as the sequence of its lexical pieces: the  *)
(* scheme ("https:"), every "/", "?", "&", and the texts between them, so  *)
(* that startswith/endswith/regex prefix tests are tests on a prefix or a  *)
(* suffix of the sequence and string concatenation is \o.                  *)
(* An optional value (a regex match, a dict lookup that may give None) is  *)
(* a sequence of length 0 or 1.                                            *)
(***************************************************************************)
EXTENDS Integers, Sequences, FiniteSets, TLC

VARIABLES calls, base_headers

vars == <<calls, base_headers>>

(***************************************************************************)
(* Bounds                                                                  *)
(***************************************************************************)
\* number of extract() invocations that may be in flight on the shared instances
MaxCalls == 2
\* number of sibling nodes in the inner list of a VK payload
MaxNodes == 2
\* number of words in an intermediate TurboVidPlay playlist document
MaxWords == 2

(***************************************************************************)
(* Strings                                                                 *)
(***************************************************************************)
StartsWith(s, p) == Len(s) >= Len(p) /\ SubSeq(s, 1, Len(p)) = p

EndsWith(s, p) == Len(s) >= Len(p) /\ SubSeq(s, Len(s) - Len(p) + 1, Len(s)) = p

\* index of the first piece of s at or after position i that lies in set, or Len(s)+1
RECURSIVE IndexOf(_, _, _)
IndexOf(s, i, set) ==
    IF i > Len(s) THEN Len(s) + 1
    ELSE IF s[i] \in set THEN i
    ELSE IndexOf(s, i + 1, set)

HTTPS == <<"https:", "/", "/">>
HTTP == <<"http:", "/", "/">>

\* urlparse(url).hostname: the netloc of a URL with "//" after the scheme, else None
Hostname(url) ==
    IF Len(url) >= 4 /\ url[2] = "/" /\ url[3] = "/" /\ url[4] \notin {"/", "?"}
    THEN SubSeq(url, 4, IndexOf(url, 4, {"/", "?"}) - 1)
    ELSE <<>>

\* urlparse(url).path
UrlPath(url) ==
    LET from == IF Hostname(url) = <<>> THEN 1 ELSE IndexOf(url, 4, {"/", "?"})
    IN  SubSeq(url, from, IndexOf(url, from, {"?"}) - 1)

\* the text after the first "?" (urlparse(url).query, and the group of r"\?(.*)")
UrlQuery(url) == SubSeq(url, IndexOf(url, 1, {"?"}) + 1, Len(url))

\* response.url.origin
Origin(url) == SubSeq(url, 1, 3) \o Hostname(url)

(***************************************************************************)
(* JSON values (json.loads results), tagged by Python type                 *)
(***************************************************************************)
JNull == [t |-> "null"]
JStr(s) == [t |-> "str", v |-> s]
JInt(n) == [t |-> "int", v |-> n]
JList(l) == [t |-> "list", v |-> l]
JDict(f) == [t |-> "dict", v |-> f]

\* Python truthiness, as used by "if x", "x and y", "x or y"
Truthy(j) ==
    CASE j.t = "null" -> FALSE
      [] j.t = "str"  -> Len(j.v) > 0
      [] j.t = "int"  -> j.v # 0
      [] j.t = "list" -> Len(j.v) > 0
      [] j.t = "dict" -> DOMAIN j.v # {}

\* a or b
PyOr(a, b) == IF Truthy(a) THEN a ELSE b

\* dict.get(key, default)
GetDefault(d, key, default) == IF key \in DOMAIN d.v THEN d.v[key] ELSE default

\* dict.get(key)
Get(d, key) == GetDefault(d, key, JNull)

\* the result of a call: the value returned, or the exception that escaped
Return(val) == [exc |-> "none", val |-> val]
Raise(exc) == [exc |-> exc, val |-> JNull]

RECURSIVE SetToSeq(_)
SetToSeq(S) ==
    IF S = {} THEN <<>>
    ELSE LET x == CHOOSE y \in S : TRUE IN <<x>> \o SetToSeq(S \ {x})

\* the items "for item in j" visits: list elements, dict keys, str characters;
\* any other type is not iterable
Iter(j) ==
    CASE j.t = "list" -> Return(j.v)
      [] j.t = "dict" -> Return([i \in 1..Cardinality(DOMAIN j.v) |->
                                    JStr(<<SetToSeq(DOMAIN j.v)[i]>>)])
      [] j.t = "str"  -> Return([i \in 1..Len(j.v) |-> JStr(<<j.v[i]>>)])
      [] OTHER        -> Raise("TypeError")

(***************************************************************************)
(* VKExtractor helpers                                                     *)
(***************************************************************************)
UA == <<"Mozilla/5.0 ... Chrome/129.0 Safari/537.36">>

SignedNums == {"-1", "1", "2"}
Nums == {"1", "2"}

\* parse_qs(query).get(key, [None])[0]: blank values are dropped
QsValue(q, key) ==
    LET i == IndexOf(q, 1, {key})
    IN  IF i < Len(q) /\ q[i + 1] # "&" THEN <<q[i + 1]>> ELSE <<>>

\* re.search(r"video(-?\d+)_(\d+)", url): the two groups, or no match
RECURSIVE SlugSearch(_, _)
SlugSearch(url, i) ==
    IF i + 3 > Len(url) THEN <<>>
    ELSE IF /\ url[i] = "video"
            /\ url[i + 1] \in SignedNums
            /\ url[i + 2] = "_"
            /\ url[i + 3] \in Nums
         THEN <<url[i + 1], url[i + 3]>>
         ELSE SlugSearch(url, i + 1)

VideoExt(oid, vid) ==
    HTTPS \o <<"vkvideo.ru", "/", "video_ext.php", "?", "oid=", oid, "&", "id=", vid>>

_normalize(url) ==
    LET qs == UrlQuery(url)
        oid == QsValue(qs, "oid=")
        vid == QsValue(qs, "id=")
        m == SlugSearch(url, 1)
    IN  IF \E i \in 1..Len(UrlPath(url)) : UrlPath(url)[i] = "video_ext.php"
        THEN url
        ELSE IF oid # <<>> /\ vid # <<>>
        THEN VideoExt(oid[1], vid[1])
        ELSE IF m # <<>>
        THEN VideoExt(m[1], m[2])
        ELSE url

\* re.search(r"https?://([^/]+)", embed_url), and the f-string around its group
_build_ajax_url(embed_url) ==
    LET matched == /\ StartsWith(embed_url, HTTPS) \/ StartsWith(embed_url, HTTP)
                   /\ Len(embed_url) >= 4
                   /\ embed_url[4] # "/"
        host == IF matched
                THEN SubSeq(embed_url, 4, IndexOf(embed_url, 4, {"/"}) - 1)
                ELSE <<"vkvideo.ru">>
    IN  HTTPS \o host \o <<"/", "al_video.php", "?", "act=show">>

\* parts.get(key) after splitting the query on "&" and "=": None or the text
PartValue(q, key) ==
    LET i == IndexOf(q, 1, {key})
    IN  IF i < Len(q) /\ q[i + 1] # "&" THEN <<q[i + 1]>> ELSE <<>>

_build_ajax_data(embed_url) ==
    LET q == UrlQuery(embed_url)
        oid == PartValue(q, "oid=")
        vid == PartValue(q, "id=")
    IN  [act |-> "show", al |-> 1,
         video |-> IF oid # <<>> /\ vid # <<>> THEN oid \o <<"_">> \o vid ELSE <<>>]

\* the first loop of both _extract_ functions: the last list among the items
RECURSIVE LastList(_, _)
LastList(items, payload) ==
    IF items = <<>> THEN payload
    ELSE LastList(Tail(items),
                  IF Head(items).t = "list" THEN Head(items).v ELSE payload)

\* the second loop: params[0] of the last item with a truthy "player" whose
\* "params" is a non-empty list
RECURSIVE ScanPlayers(_, _)
ScanPlayers(payload, params) ==
    IF payload = <<>> THEN Return(params)
    ELSE LET item == Head(payload) IN
         IF item.t = "dict" /\ Truthy(Get(item, "player"))
         THEN LET player == item.v["player"] IN
              IF player.t # "dict" THEN Raise("AttributeError")
              ELSE LET p == Get(player, "params") IN
                   IF p.t = "list" /\ Truthy(p)
                   THEN ScanPlayers(Tail(payload), p.v[1])
                   ELSE ScanPlayers(Tail(payload), params)
         ELSE ScanPlayers(Tail(payload), params)

\* both loops: the params the two _extract_ functions read their fields from
SelectParams(json_data) ==
    IF json_data.t # "dict" THEN Raise("AttributeError")
    ELSE LET it == Iter(GetDefault(json_data, "payload", JList(<<>>))) IN
         IF it.exc # "none" THEN it
         ELSE ScanPlayers(LastList(it.val, <<>>), JNull)

\* a variant that reads the resolutions lowest first
_extract_progressive_mp4_LowestFirst(json_data) ==
    LET s == SelectParams(json_data) IN
    IF s.exc # "none" THEN s
    ELSE IF ~Truthy(s.val) THEN Return(JNull)
    ELSE IF s.val.t # "dict" THEN Raise("AttributeError")
    ELSE Return(PyOr(Get(s.val, "url360"),
                PyOr(Get(s.val, "url480"),
                PyOr(Get(s.val, "url720"),
                     Get(s.val, "url1080")))))

_extract_progressive_mp4(json_data) ==
    LET s == SelectParams(json_data) IN
    IF s.exc # "none" THEN s
    ELSE IF ~Truthy(s.val) THEN Return(JNull)
    ELSE IF s.val.t # "dict" THEN Raise("AttributeError")
    ELSE Return(PyOr(Get(s.val, "url1080"),
                PyOr(Get(s.val, "url720"),
                PyOr(Get(s.val, "url480"),
                     Get(s.val, "url360")))))

_extract_hls(json_data) ==
    LET s == SelectParams(json_data) IN
    IF s.exc # "none" THEN s
    ELSE IF ~Truthy(s.val) THEN Return(JNull)
    ELSE IF s.val.t # "dict" THEN Raise("AttributeError")
    ELSE Return(PyOr(Get(s.val, "hls"),
                PyOr(Get(s.val, "hls_ondemand"),
                     Get(s.val, "hls_live"))))

\* the number of leading characters of s, from position i on, that lie in set
RECURSIVE LeadingIn(_, _, _)
LeadingIn(s, i, set) ==
    IF i > Len(s) \/ s[i] \notin set THEN i - 1 ELSE LeadingIn(s, i + 1, set)

\* text.lstrip("<!--"): every leading character in the set {<, !, -} goes, the
\* minus sign of a leading negative number included. A body is its leading
\* characters (lead) before the JSON document (doc).
Lstrip(text) ==
    LET rest == SubSeq(text.lead, LeadingIn(text.lead, 1, {"<", "!", "-"}) + 1,
                       Len(text.lead))
    IN  [lead |-> rest,
         doc |-> IF rest = <<>> /\ text.doc.t = "int" /\ text.doc.v < 0
                 THEN JInt(0 - text.doc.v)
                 ELSE text.doc]

\* json.loads(text): the value, or a parse error when text does not start a document
JsonLoads(text) == IF text.lead = <<>> THEN Return(text.doc) ELSE Raise("JSONDecodeError")

(***************************************************************************)
(* TurboVidPlayExtractor and VidozaExtractor helpers                       *)
(***************************************************************************)
domains ==
    {"turboviplay.com", "emturbovid.com", "tuborstb.co", "javggvideo.xyz",
     "stbturbo.xyz", "turbovidhls.com"}

\* re.search(r'(?:urlPlay|data-hash)\s*=\s*[\'"]([^\'"]+)', html): html is the
\* sequence of the page's attribute assignments name = "value"
RECURSIVE MediaSearch(_)
MediaSearch(html) ==
    IF html = <<>> THEN <<>>
    ELSE IF Head(html).name \in {"urlPlay", "data-hash"} /\ Head(html).value # <<>>
         THEN <<Head(html).value>>
         ELSE MediaSearch(Tail(html))

\* the normalisation of media_url (turbovidplay.py 34-37)
NormalizeMedia(media_url, response_url) ==
    IF StartsWith(media_url, <<"/", "/">>) THEN <<"https:">> \o media_url
    ELSE IF StartsWith(media_url, <<"/">>) THEN Origin(response_url) \o media_url
    ELSE media_url

\* the last position of ".m3u8" in word, 0 when there is none
RECURSIVE LastM3u8(_, _)
LastM3u8(word, i) ==
    IF i = 0 THEN 0 ELSE IF word[i] = ".m3u8" THEN i ELSE LastM3u8(word, i - 1)

\* re.search(r'https?://[^\'"\s]+\.m3u8', playlist): playlist is the sequence
\* of the document's words (its quote- and space-separated texts)
RECURSIVE M3u8Search(_)
M3u8Search(playlist) ==
    IF playlist = <<>> THEN <<>>
    ELSE LET word == Head(playlist)
             last == LastM3u8(word, Len(word))
         IN  IF (StartsWith(word, HTTPS) \/ StartsWith(word, HTTP)) /\ last >= 5
             THEN <<SubSeq(word, 1, last)>>
             ELSE M3u8Search(Tail(playlist))

browser_headers ==
    [k \in {"referer", "origin", "user-agent", "accept", "accept-language"} |->
        CASE k = "referer" -> HTTPS \o <<"vidoza.net", "/">>
          [] k = "origin" -> HTTPS \o <<"vidoza.net">>
          [] k = "user-agent" -> <<"Mozilla/5.0 ... Chrome/120.0.0.0 Safari/537.36">>
          [] k = "accept" -> <<"*/*">>
          [] k = "accept-language" -> <<"en-US,en;q=0.9">>]

\* js_pattern.search(html): html is the sequence of the page's player source
\* entries, each a key, its quoted value, and whether a quoted text followed by
\* "res" comes after it
RECURSIVE SourceSearch(_)
SourceSearch(html) ==
    IF html = <<>> THEN <<>>
    ELSE IF /\ Head(html).key \in {"file", "src", "FILE", "SRC"}
            /\ Head(html).value # <<>>
            /\ Head(html).res
         THEN <<Head(html).value>>
         ELSE SourceSearch(Tail(html))

\* "; ".join(f"{k}={v}" for k, v in cookies.items())
RECURSIVE CookieHeader(_)
CookieHeader(cookies) ==
    IF cookies = <<>> THEN <<>>
    ELSE <<Head(cookies)[1], "=", Head(cookies)[2]>>
         \o (IF Len(cookies) > 1 THEN <<"; ">> ELSE <<>>)
         \o CookieHeader(Tail(cookies))

(***************************************************************************)
(* State                                                                   *)
(***************************************************************************)
Adapters == {"vidoza", "turbovidplay", "vk"}

Calls == 1..MaxCalls

NoOutcome == [kind |-> "none"]

\* the dict extract() returns; request_headers is a reference: to the
\* instance's base_headers, or to a dict that only this descriptor holds
Descriptor(destination_url, request_headers, mediaflow_endpoint) ==
    [kind |-> "descriptor", destination_url |-> destination_url,
     request_headers |-> request_headers, mediaflow_endpoint |-> mediaflow_endpoint]

ExtractorError(msg) == [kind |-> "ExtractorError", msg |-> msg]

\* an exception that is no ExtractorError leaves extract()
Uncaught(exc) == [kind |-> "Exception", exc |-> exc]

BaseRef(adapter) == [ref |-> "base", adapter |-> adapter, val |-> <<>>]
OwnRef(dict) == [ref |-> "own", adapter |-> "none", val |-> dict]

\* the dict a request_headers reference points to, now
Deref(h) == IF h.ref = "base" THEN base_headers[h.adapter] ELSE h.val

Idle ==
    [adapter |-> "none", url |-> <<>>, pc |-> "idle", fetches |-> <<>>,
     resps |-> <<>>, embed_url |-> <<>>, media_url |-> <<>>, real_m3u8 |-> <<>>,
     outcome |-> NoOutcome]

\* one _make_request call: what is asked of the transport
Request(url, method, headers, data) ==
    [url |-> url, method |-> method, headers |-> headers, data |-> data]

\* BaseExtractor.__init__: the headers every instance starts with
BaseHeaders0 == [k \in {"user-agent"} |-> <<"default-agent">>]

Init ==
    /\ calls = [c \in Calls |-> Idle]
    /\ base_headers = [a \in Adapters |-> BaseHeaders0]

\* the call stops: it returns a descriptor or an exception leaves it
Finish(c, outcome) ==
    calls' = [calls EXCEPT ![c].pc = "done", ![c].outcome = outcome]

(***************************************************************************)
(* VidozaExtractor.extract                                                 *)
(***************************************************************************)
\* from the call to the first await: the domain rule, then the page fetch
VidozaExtract(c, url) ==
    /\ calls[c].pc = "idle"
    /\ LET hostname == Hostname(url) IN
       IF hostname = <<>> \/ ~EndsWith(hostname, <<"videzz.net">>)
       THEN calls' = [calls EXCEPT ![c] = [@ EXCEPT
                !.adapter = "vidoza", !.url = url, !.pc = "done",
                !.outcome = ExtractorError("VIDOZA: Invalid domain")]]
       ELSE calls' = [calls EXCEPT ![c] = [@ EXCEPT
                !.adapter = "vidoza", !.url = url, !.pc = "vidoza_page",
                !.fetches = Append(@, Request(url, "GET", browser_headers, <<>>))]]
    /\ UNCHANGED base_headers

\* the statement that normalises stream_url (vidoza.py 62-63)
NormalizeStream(stream_url) ==
    IF StartsWith(stream_url, <<"/", "/">>) THEN <<"https:">> \o stream_url
    ELSE stream_url

\* the headers of the descriptor (vidoza.py 66-75)
StreamHeaders(cookies) ==
    (IF cookies # <<>> THEN [k \in {"cookie"} |-> CookieHeader(cookies)] ELSE <<>>)
    @@ [k \in {"referer"} |-> HTTPS \o <<"vidoza.net", "/">>]
    @@ browser_headers
    @@ base_headers["vidoza"]

\* the embed page arrives: the rest of extract
VidozaPageResponse(c, resp) ==
    /\ calls[c].pc = "vidoza_page"
    /\ LET html == resp.text
           match == SourceSearch(html)
           outcome ==
               IF html = <<>> THEN ExtractorError("VIDOZA: Empty embed page")
               ELSE IF match = <<>>
               THEN ExtractorError(
                       "VIDOZA: Unable to extract stream URL (JS source not found)")
               ELSE Descriptor(NormalizeStream(match[1]),
                               OwnRef(StreamHeaders(resp.cookies)),
                               "proxy_stream_endpoint")
       IN  calls' = [calls EXCEPT ![c] = [@ EXCEPT
                !.resps = Append(@, resp), !.pc = "done", !.outcome = outcome]]
    /\ UNCHANGED base_headers

(***************************************************************************)
(* TurboVidPlayExtractor.extract                                           *)
(***************************************************************************)
\* 1. Load embed
TurboExtract(c, url) ==
    /\ calls[c].pc = "idle"
    /\ calls' = [calls EXCEPT ![c] = [@ EXCEPT
            !.adapter = "turbovidplay", !.url = url, !.pc = "turbo_page",
            !.fetches = Append(@, Request(url, "GET", <<>>, <<>>))]]
    /\ UNCHANGED base_headers

\* 2. Extract urlPlay or data-hash, 3. fetch the intermediate playlist
TurboPageResponse(c, resp) ==
    /\ calls[c].pc = "turbo_page"
    /\ LET m == MediaSearch(resp.text) IN
       IF m = <<>>
       THEN calls' = [calls EXCEPT ![c] = [@ EXCEPT
                !.resps = Append(@, resp), !.pc = "done",
                !.outcome = ExtractorError("TurboViPlay: No media URL found")]]
       ELSE LET media_url == NormalizeMedia(m[1], resp.url) IN
            calls' = [calls EXCEPT ![c] = [@ EXCEPT
                !.resps = Append(@, resp), !.pc = "turbo_data",
                !.media_url = media_url,
                !.fetches = Append(@, Request(media_url, "GET",
                                [k \in {"Referer"} |-> calls[c].url], <<>>))]]
    /\ UNCHANGED base_headers

\* a variant that fetches the intermediate playlist again when it has no .m3u8 URL
TurboDataResponse_Retry(c, resp) ==
    /\ calls[c].pc = "turbo_data"
    /\ LET m2 == M3u8Search(resp.text) IN
       IF m2 = <<>>
       THEN calls' = [calls EXCEPT ![c] = [@ EXCEPT
                !.resps = Append(@, resp),
                !.fetches = Append(@, Request(calls[c].media_url, "GET",
                                [k \in {"Referer"} |-> calls[c].url], <<>>))]]
       ELSE calls' = [calls EXCEPT ![c] = [@ EXCEPT
                !.resps = Append(@, resp), !.pc = "turbo_final",
                !.real_m3u8 = m2[1],
                !.fetches = Append(@, Request(m2[1], "GET",
                                [k \in {"Referer"} |-> calls[c].url], <<>>))]]
    /\ UNCHANGED base_headers

\* 4. Extract the REAL playlist URL, 5. download it
TurboDataResponse(c, resp) ==
    /\ calls[c].pc = "turbo_data"
    /\ LET m2 == M3u8Search(resp.text) IN
       IF m2 = <<>>
       THEN calls' = [calls EXCEPT ![c] = [@ EXCEPT
                !.resps = Append(@, resp), !.pc = "done",
                !.outcome = ExtractorError(
                    "TurboViPlay: Unable to extract real playlist URL")]]
       ELSE calls' = [calls EXCEPT ![c] = [@ EXCEPT
                !.resps = Append(@, resp), !.pc = "turbo_final",
                !.real_m3u8 = m2[1],
                !.fetches = Append(@, Request(m2[1], "GET",
                                [k \in {"Referer"} |-> calls[c].url], <<>>))]]
    /\ UNCHANGED base_headers

\* 6. Set referer, 7. pick the endpoint, 8. return
TurboFinalResponse(c, resp) ==
    /\ calls[c].pc = "turbo_final"
    /\ LET is_media_playlist == \E i \in 1..Len(resp.text) : resp.text[i] = "#EXTINF"
           mediaflow_endpoint ==
               IF is_media_playlist THEN "hls_playlist_proxy" ELSE "hls_manifest_proxy"
       IN  /\ base_headers' = [base_headers EXCEPT !["turbovidplay"] =
                    [k \in {"referer"} |-> calls[c].url] @@ @]
           /\ calls' = [calls EXCEPT ![c] = [@ EXCEPT
                !.resps = Append(@, resp), !.pc = "done",
                !.outcome = Descriptor(calls[c].real_m3u8, BaseRef("turbovidplay"),
                                       mediaflow_endpoint)]]

(***************************************************************************)
(* VKExtractor.extract                                                     *)
(***************************************************************************)
\* self.mediaflow_endpoint, set in __init__
VKEndpoint == "mpd_manifest_proxy"

VKHeaders ==
    [k \in {"User-Agent", "Referer", "Origin", "Cookie", "X-Requested-With"} |->
        CASE k = "User-Agent" -> UA
          [] k = "Referer" -> HTTPS \o <<"vkvideo.ru", "/">>
          [] k = "Origin" -> HTTPS \o <<"vkvideo.ru">>
          [] k = "Cookie" -> <<"remixlang=0">>
          [] k = "X-Requested-With" -> <<"XMLHttpRequest">>]

\* normalise, then 1) try the direct MPD from video_ext.php
VKExtract(c, url) ==
    /\ calls[c].pc = "idle"
    /\ LET embed_url == _normalize(url) IN
       calls' = [calls EXCEPT ![c] = [@ EXCEPT
            !.adapter = "vk", !.url = url, !.pc = "vk_probe",
            !.embed_url = embed_url,
            !.fetches = Append(@, Request(embed_url, "GET", VKHeaders, <<>>))]]
    /\ UNCHANGED base_headers

\* (resp.headers.get("content-type") or "").split(";")[0].strip(): the header is
\* absent or the sequence of its ";"-separated parts
ContentType(header) == IF header = <<>> THEN "" ELSE header[1]

\* a variant that trusts the content type alone
IsMPD_ContentTypeOnly(resp) == ContentType(resp.content_type) = "application/dash+xml"

\* the test of line 52
IsMPD(resp) ==
    \/ ContentType(resp.content_type) = "application/dash+xml"
    \/ \E i \in 1..Len(resp.text) : resp.text[i] = "<MPD"

\* the probe's response arrives: return the MPD, or 2) post to al_video.php
VKProbeResponse(c, resp) ==
    /\ calls[c].pc = "vk_probe"
    /\ IF IsMPD(resp)
       THEN calls' = [calls EXCEPT ![c] = [@ EXCEPT
                !.resps = Append(@, resp), !.pc = "done",
                !.outcome = Descriptor(resp.url, OwnRef(VKHeaders), VKEndpoint)]]
       ELSE calls' = [calls EXCEPT ![c] = [@ EXCEPT
                !.resps = Append(@, resp), !.pc = "vk_ajax",
                !.fetches = Append(@, Request(_build_ajax_url(calls[c].embed_url),
                                "POST", VKHeaders,
                                _build_ajax_data(calls[c].embed_url)))]]
    /\ UNCHANGED base_headers

\* a variant that tries HLS before the progressive files
AjaxOutcome_HlsFirst(text) ==
    LET json_data == JsonLoads(Lstrip(text)) IN
    IF json_data.exc # "none"
    THEN ExtractorError("VK: invalid JSON payload (no MPD, no params)")
    ELSE LET hls_url == _extract_hls(json_data.val) IN
         IF hls_url.exc # "none" THEN Uncaught(hls_url.exc)
         ELSE IF Truthy(hls_url.val)
         THEN Descriptor(hls_url.val.v, OwnRef(VKHeaders), "hls_manifest_proxy")
         ELSE LET mp4 == _extract_progressive_mp4(json_data.val) IN
              IF mp4.exc # "none" THEN Uncaught(mp4.exc)
              ELSE IF Truthy(mp4.val)
              THEN Descriptor(mp4.val.v, OwnRef(VKHeaders), "proxy_stream_endpoint")
              ELSE ExtractorError("VK: no DASH MPD, no MP4 and no HLS URL found")

\* lines 71-98: what extract does with the body of the al_video.php response
AjaxOutcome(text) ==
    LET json_data == JsonLoads(Lstrip(text)) IN
    IF json_data.exc # "none"
    THEN ExtractorError("VK: invalid JSON payload (no MPD, no params)")
    ELSE LET mp4 == _extract_progressive_mp4(json_data.val) IN
         IF mp4.exc # "none" THEN Uncaught(mp4.exc)
         ELSE IF Truthy(mp4.val)
         THEN Descriptor(mp4.val.v, OwnRef(VKHeaders), "proxy_stream_endpoint")
         ELSE LET hls_url == _extract_hls(json_data.val) IN
              IF hls_url.exc # "none" THEN Uncaught(hls_url.exc)
              ELSE IF Truthy(hls_url.val)
              THEN Descriptor(hls_url.val.v, OwnRef(VKHeaders), "hls_manifest_proxy")
              ELSE ExtractorError("VK: no DASH MPD, no MP4 and no HLS URL found")

\* the al_video.php response arrives: the rest of extract
VKAjaxResponse(c, resp) ==
    /\ calls[c].pc = "vk_ajax"
    /\ calls' = [calls EXCEPT ![c] = [@ EXCEPT
            !.resps = Append(@, resp), !.pc = "done",
            !.outcome = AjaxOutcome(resp.text)]]
    /\ UNCHANGED base_headers

(***************************************************************************)
(* The transport                                                           *)
(***************************************************************************)
Awaiting ==
    {"vidoza_page", "turbo_page", "turbo_data", "turbo_final", "vk_probe", "vk_ajax"}

\* BaseExtractor._make_request fails: its ExtractorError leaves extract
FetchFails(c) ==
    /\ calls[c].pc \in Awaiting
    /\ Finish(c, ExtractorError("request failed"))
    /\ UNCHANGED base_headers

(***************************************************************************)
(* Inputs: the URLs callers pass and the responses upstream may send       *)
(***************************************************************************)
SeqsUpTo(S, n) == UNION {[1..k -> S] : k \in 0..n}

VidozaUrls ==
    {HTTPS \o <<"videzz.net", "/", "e">>,
     HTTPS \o <<"www.", "videzz.net", "/", "e">>,
     HTTPS \o <<"evil.example", "/", "e">>,
     <<"e">>}

TurboUrls ==
    {HTTPS \o <<"turbovidhls.com", "/", "t">>,
     HTTPS \o <<"emturbovid.com", "/", "t">>,
     HTTPS \o <<"evil.example", "/", "t">>}

VKUrls ==
    {HTTPS \o <<"vk.com", "/", "video", "-1", "_", "2">>,
     HTTPS \o <<"vkvideo.ru", "/", "video_ext.php", "?", "oid=", "-1", "&", "id=", "2">>,
     HTTPS \o <<"vk.com", "/", "video", "?", "oid=", "-1", "&", "id=", "2">>,
     HTTPS \o <<"vk.com", "/", "video", "?", "oid=", "&", "id=", "2">>,
     HTTPS \o <<"evil.example", "/", "feed">>}

\* locators a page may carry: absolute, protocol-relative, root-relative, empty
Locators ==
    {HTTPS \o <<"cdn", "/", "v">>, <<"/", "/", "cdn", "/", "v">>, <<"/", "v">>, <<>>}

VidozaPages ==
    {[text |-> <<>>, cookies |-> <<>>]}
    \cup {[text |-> <<[key |-> k, value |-> v, res |-> r]>>, cookies |-> ck] :
            k \in {"file", "label"}, v \in Locators, r \in BOOLEAN,
            ck \in {<<>>, <<<<"sid", "1">>>>}}

\* the pages at url: no assignment, or one assignment, of a locator, to one of names
TurboPages(url, names) ==
    {[text |-> <<>>, url |-> url]}
    \cup {[text |-> <<[name |-> n, value |-> v]>>, url |-> url] :
            n \in names, v \in Locators}

Words ==
    {HTTPS \o <<"cdn", "/", "real", ".m3u8">>,
     HTTP \o <<"cdn", "/", "real", ".m3u8", "?", "t=1">>,
     HTTPS \o <<"cdn", "/", "v.mp4">>,
     <<"/", "/", "cdn", "/", "real", ".m3u8">>,
     <<"#EXTM3U">>}

TurboPlaylists(n) == {[text |-> t] : t \in SeqsUpTo(Words, n)}

TurboFinals ==
    {[text |-> <<"#EXTM3U", "#EXTINF">>], [text |-> <<"#EXTM3U", "#EXT-X-STREAM-INF">>]}

\* where the probe may end after redirects: the URL asked for, or a CDN's
\* manifest URL, with or without the query marker of a full-file variant
FullFileMarker == "full-file-marker"
FinalUrls(url) ==
    {url,
     HTTPS \o <<"vk6.vkuser.net", "/", "?", "type=1">>,
     HTTPS \o <<"vk6.vkuser.net", "/", "?", "type=1", "&", FullFileMarker>>}

VKProbes(url) ==
    {[content_type |-> ct, text |-> <<"<?xml", "<MPD">>, url |-> u] :
        ct \in {<<>>, <<"application/dash+xml">>}, u \in FinalUrls(url)}
    \cup {[content_type |-> <<"application/dash+xml", "charset=utf-8">>,
           text |-> <<>>, url |-> u] : u \in FinalUrls(url)}
    \cup {[content_type |-> <<"text/html", "charset=utf-8">>,
           text |-> <<"<html">>, url |-> url],
          [content_type |-> <<>>, text |-> <<>>, url |-> url]}

ProgKeys == {"url1080", "url720", "url480", "url360"}
HlsKeys == {"hls", "hls_ondemand", "hls_live"}

\* the value a document gives field k when it is not empty
KeyUrl(k) == HTTPS \o <<"cdn", "/", k>>

\* a params object: every field absent, empty or a URL
MkParams(ch) ==
    JDict([k \in {f \in DOMAIN ch : ch[f] # "absent"} |->
             IF ch[k] = "empty" THEN JStr(<<>>) ELSE JStr(KeyUrl(k))])

AllParams == {MkParams(ch) : ch \in [ProgKeys \cup HlsKeys -> {"absent", "empty", "url"}]}

PlayerNode(player) == JDict([k \in {"player"} |-> player])
WithParams(params) == JDict([k \in {"params"} |-> params])

\* {"payload": [0, [nodes]]}
Doc(nodes) == JDict([k \in {"payload"} |-> JList(<<JInt(0), JList(nodes)>>)])

\* sibling nodes: not an object, no player, a player that is no object, a player
\* without params, with no params[0], with a params[0] that is no object, with
\* a params[0] of no playable field, and with playable fields
Nodes ==
    {JStr(<<"title">>),
     JDict([k \in {"id"} |-> JInt(1)]),
     PlayerNode(JStr(<<"x">>)),
     PlayerNode(JDict([k \in {"id"} |-> JInt(1)])),
     PlayerNode(WithParams(JList(<<>>))),
     PlayerNode(WithParams(JList(<<JStr(<<"x">>)>>))),
     PlayerNode(WithParams(JList(<<JDict([k \in {"title"} |-> JStr(<<"t">>)])>>))),
     PlayerNode(WithParams(JList(<<JDict([k \in {"url720"} |-> JStr(KeyUrl(k))])>>))),
     PlayerNode(WithParams(JList(<<JDict([k \in {"hls"} |-> JStr(KeyUrl(k))])>>)))}

\* documents that are JSON and not the expected tree
OddDocs ==
    {JNull, JInt(0 - 1), JList(<<>>), JStr(<<"ok">>), JDict(<<>>),
     JDict([k \in {"payload"} |-> JNull]),
     JDict([k \in {"payload"} |-> JInt(5)]),
     JDict([k \in {"payload"} |-> JStr(<<"a", "b">>)]),
     JDict([k \in {"payload"} |-> JDict([k2 \in {"x"} |-> JInt(1)])]),
     JDict([k \in {"payload"} |-> JList(<<>>)])}

Marker == <<"<", "!", "-", "-">>

\* al_video.php bodies: the comment marker and then a document, or a text that
\* is no JSON
AjaxBodies(docs) ==
    {[text |-> [lead |-> Marker, doc |-> d]] : d \in docs}
    \cup {[text |-> [lead |-> <<"<", "h", "t", "m", "l", ">">>, doc |-> JNull]]}

\* bodies without the comment marker
PlainBodies == {[text |-> [lead |-> <<>>, doc |-> d]] : d \in OddDocs}

SmallDocs == {Doc(ns) : ns \in SeqsUpTo(Nodes, 1)}

VKDocs ==
    OddDocs
    \cup {Doc(ns) : ns \in SeqsUpTo(Nodes, MaxNodes)}
    \cup {Doc(<<PlayerNode(WithParams(JList(<<p>>)))>>) : p \in AllParams}

(***************************************************************************)
(* Specifications                                                          *)
(***************************************************************************)
\* calls in flight on the three instances, any interleaving
Next ==
    \E c \in Calls :
        \/ \E url \in VidozaUrls : VidozaExtract(c, url)
        \/ \E resp \in VidozaPages : VidozaPageResponse(c, resp)
        \/ \E url \in TurboUrls : TurboExtract(c, url)
        \/ \E resp \in TurboPages(calls[c].url, {"urlPlay", "id"}) :
                TurboPageResponse(c, resp)
        \/ \E resp \in TurboPlaylists(1) : TurboDataResponse(c, resp)
        \/ \E resp \in TurboFinals : TurboFinalResponse(c, resp)
        \/ \E url \in VKUrls : VKExtract(c, url)
        \/ \E resp \in VKProbes(calls[c].embed_url) : VKProbeResponse(c, resp)
        \/ \E resp \in AjaxBodies(SmallDocs) : VKAjaxResponse(c, resp)
        \/ FetchFails(c)

Spec == Init /\ [][Next]_vars

\* one TurboVidPlay call, every playlist document of up to MaxWords words
NextTurbo ==
    \/ \E url \in TurboUrls : TurboExtract(1, url)
    \/ \E resp \in TurboPages(calls[1].url, {"urlPlay", "data-hash", "id"})
                   \cup TurboPages(HTTPS \o <<"tuborstb.co", "/", "e">>, {"urlPlay"}) :
            TurboPageResponse(1, resp)
    \/ \E resp \in TurboPlaylists(MaxWords) : TurboDataResponse(1, resp)
    \/ \E resp \in TurboFinals : TurboFinalResponse(1, resp)
    \/ FetchFails(1)

SpecTurbo == Init /\ [][NextTurbo]_vars

\* one VK call, every payload of up to MaxNodes sibling nodes
NextVK ==
    \/ \E url \in VKUrls : VKExtract(1, url)
    \/ \E resp \in VKProbes(calls[1].embed_url) : VKProbeResponse(1, resp)
    \/ \E resp \in AjaxBodies(VKDocs) \cup PlainBodies : VKAjaxResponse(1, resp)
    \/ FetchFails(1)

SpecVK == Init /\ [][NextVK]_vars

(***************************************************************************)
(* Properties                                                              *)
(***************************************************************************)
IsAbsolute(s) == StartsWith(s, HTTPS) \/ StartsWith(s, HTTP)

Returned(c) == calls[c].pc = "done" /\ calls[c].outcome.kind = "descriptor"

Failed(c, msg) ==
    /\ calls[c].pc = "done"
    /\ calls[c].outcome.kind = "ExtractorError"
    /\ calls[c].outcome.msg = msg

\* the domains each adapter accepts: the suffix vidoza.py tests, the domains
\* TurboVidPlayExtractor declares, the hosts VKExtractor's docstrings name
AcceptedDomains(adapter) ==
    CASE adapter = "vidoza" -> {"videzz.net"}
      [] adapter = "turbovidplay" -> domains
      [] adapter = "vk" -> {"vk.com", "vkvideo.ru"}

HostAccepted(adapter, url) ==
    LET h == Hostname(url) IN h # <<>> /\ h[Len(h)] \in AcceptedDomains(adapter)

\* C1: a call whose URL's host is outside its adapter's accepted domains fails
\* with an ExtractorError and has issued no fetch.
C1_RejectedBeforeAnyFetch ==
    \A c \in Calls :
        (calls[c].adapter # "none" /\ ~HostAccepted(calls[c].adapter, calls[c].url))
        => /\ calls[c].fetches = <<>>
           /\ calls[c].outcome.kind = "ExtractorError"

\* C2: the destination_url of every returned descriptor is absolute: it starts
\* with http:// or https://.
C2_DestinationAbsolute ==
    \A c \in Calls : Returned(c) => IsAbsolute(calls[c].outcome.destination_url)

\* C3: once a descriptor has been returned, the headers its request_headers
\* holds do not change, whatever any call does afterwards.
C3_ReturnedHeadersNeverChange ==
    [][\A c \in Calls :
          Returned(c) =>
              Deref(calls[c].outcome.request_headers)'
                  = Deref(calls[c].outcome.request_headers)]_vars

\* C4: every call that has ended has ended in a descriptor or in an
\* ExtractorError: no other exception leaves extract.
C4_DescriptorOrExtractorError ==
    \A c \in Calls :
        calls[c].pc = "done" => calls[c].outcome.kind \in {"descriptor", "ExtractorError"}

\* the call got the al_video.php body, and it parsed as JSON
GotJson(c) ==
    /\ calls[c].adapter = "vk"
    /\ calls[c].pc = "done"
    /\ Len(calls[c].resps) = 2
    /\ JsonLoads(Lstrip(calls[c].resps[2].text)).exc = "none"

JsonOf(c) == JsonLoads(Lstrip(calls[c].resps[2].text)).val

\* the call got a payload whose selected params is an object
GotParams(c) ==
    /\ GotJson(c)
    /\ SelectParams(JsonOf(c)).exc = "none"
    /\ SelectParams(JsonOf(c)).val.t = "dict"

ParamsOf(c) == SelectParams(JsonOf(c)).val.v

NonEmpty(params, k) == k \in DOMAIN params /\ Truthy(params[k])

\* the value of the first non-empty field of params in the order keys
RECURSIVE FirstNonEmpty(_, _)
FirstNonEmpty(params, keys) ==
    IF keys = <<>> THEN <<>>
    ELSE IF NonEmpty(params, Head(keys)) THEN params[Head(keys)].v
    ELSE FirstNonEmpty(params, Tail(keys))

Descending == <<"url1080", "url720", "url480", "url360">>
Manifests == <<"hls", "hls_ondemand", "hls_live">>

BothKinds(c) ==
    /\ GotParams(c)
    /\ \E k \in HlsKeys : NonEmpty(ParamsOf(c), k)
    /\ \E k \in ProgKeys : NonEmpty(ParamsOf(c), k)

\* C5 as claimed: when the selected params carry a non-empty manifest field and
\* a non-empty progressive field, the descriptor is the manifest one.
C5_ManifestBeforeProgressive ==
    \A c \in Calls :
        BothKinds(c) =>
            /\ Returned(c)
            /\ calls[c].outcome.mediaflow_endpoint = "hls_manifest_proxy"
            /\ calls[c].outcome.destination_url = FirstNonEmpty(ParamsOf(c), Manifests)

\* C5 as amended: when the selected params carry a non-empty manifest field and
\* a non-empty progressive field, the descriptor is the progressive file, the
\* first non-empty of url1080, url720, url480, url360, with
\* proxy_stream_endpoint; a manifest descriptor (hls_manifest_proxy) is returned
\* only when no progressive field is non-empty.
C5_ProgressiveBeforeManifest ==
    \A c \in Calls :
        /\ BothKinds(c) =>
            /\ Returned(c)
            /\ calls[c].outcome.mediaflow_endpoint = "proxy_stream_endpoint"
            /\ calls[c].outcome.destination_url = FirstNonEmpty(ParamsOf(c), Descending)
        /\ (GotParams(c) /\ Returned(c)
            /\ calls[c].outcome.mediaflow_endpoint = "hls_manifest_proxy") =>
            /\ \A k \in ProgKeys : ~NonEmpty(ParamsOf(c), k)
            /\ calls[c].outcome.destination_url = FirstNonEmpty(ParamsOf(c), Manifests)

C5_Witness ==
    \E c \in Calls :
        /\ BothKinds(c)
        /\ NonEmpty(ParamsOf(c), "hls")
        /\ NonEmpty(ParamsOf(c), "url480")
        /\ Returned(c)
        /\ calls[c].outcome.destination_url = KeyUrl("url480")

HasFullFileMarker(url) == \E i \in 1..Len(url) : url[i] = FullFileMarker

\* C6: no descriptor of the DASH endpoint (mpd_manifest_proxy) has a
\* destination that carries the full-file marker.
C6_NoFullFileAsDash ==
    \A c \in Calls :
        (Returned(c) /\ calls[c].outcome.mediaflow_endpoint = "mpd_manifest_proxy")
        => ~HasFullFileMarker(calls[c].outcome.destination_url)

OnlyProgressive(c) ==
    /\ GotParams(c)
    /\ \A k \in HlsKeys : k \notin DOMAIN ParamsOf(c)
    /\ \E k \in ProgKeys : NonEmpty(ParamsOf(c), k)

\* C7: when the selected params carry no manifest field and a non-empty
\* progressive field, the call returns a descriptor of proxy_stream_endpoint
\* whose destination is the first non-empty of url1080, url720, url480, url360.
C7_HighestProgressive ==
    \A c \in Calls :
        OnlyProgressive(c) =>
            /\ Returned(c)
            /\ calls[c].outcome.mediaflow_endpoint = "proxy_stream_endpoint"
            /\ calls[c].outcome.destination_url = FirstNonEmpty(ParamsOf(c), Descending)

C7_Witness ==
    \E c \in Calls :
        /\ OnlyProgressive(c)
        /\ DOMAIN ParamsOf(c) = {"url720", "url360"}
        /\ NonEmpty(ParamsOf(c), "url720")
        /\ NonEmpty(ParamsOf(c), "url360")
        /\ calls[c].outcome.destination_url = KeyUrl("url720")

\* the page carries an urlPlay or data-hash assignment of a non-empty value
HasLocator(html) ==
    \E i \in 1..Len(html) :
        html[i].name \in {"urlPlay", "data-hash"} /\ Len(html[i].value) > 0

\* the document carries a word http(s)://...m3u8
HasM3u8(playlist) ==
    \E i \in 1..Len(playlist) :
        /\ IsAbsolute(playlist[i])
        /\ \E j \in 5..Len(playlist[i]) : playlist[i][j] = ".m3u8"

\* C8: a TurboVidPlay call issues at most three fetches, of the input URL, of
\* the intermediate locator and of the real manifest, each only after the one
\* before it was answered and none twice; a page without a locator ends it with
\* 'No media URL found' after one fetch, an intermediate document without an
\* .m3u8 URL with 'Unable to extract real playlist URL' after two, and a
\* descriptor is returned only when the third fetch was answered.
C8_TurboFetchOrder ==
    \A c \in Calls :
        calls[c].adapter = "turbovidplay" =>
            LET f == calls[c].fetches
                r == calls[c].resps
            IN  /\ Len(f) \in 1..3
                /\ Len(r) <= Len(f)
                /\ Len(f) <= Len(r) + 1
                /\ calls[c].pc # "done" => Len(f) = Len(r) + 1
                /\ f[1].url = calls[c].url
                /\ Len(f) >= 2 => HasLocator(r[1].text) /\ f[2].url = calls[c].media_url
                /\ Len(f) >= 3 => HasM3u8(r[2].text) /\ f[3].url = calls[c].real_m3u8
                /\ (Len(r) >= 1 /\ ~HasLocator(r[1].text)) =>
                        Failed(c, "TurboViPlay: No media URL found") /\ Len(f) = 1
                /\ (Len(r) >= 2 /\ ~HasM3u8(r[2].text)) =>
                        /\ Failed(c, "TurboViPlay: Unable to extract real playlist URL")
                        /\ Len(f) = 2
                /\ Returned(c) => Len(f) = 3 /\ Len(r) = 3

C8_Witness ==
    \E c \in Calls :
        /\ calls[c].adapter = "turbovidplay"
        /\ Len(calls[c].resps) = 2
        /\ ~HasM3u8(calls[c].resps[2].text)
        /\ Len(calls[c].resps[2].text) = MaxWords
        /\ Failed(c, "TurboViPlay: Unable to extract real playlist URL")

\* the probe's response is a manifest: its content type says DASH, or its text
\* has an <MPD tag
ProbeYieldsManifest(resp) ==
    \/ resp.content_type # <<>> /\ resp.content_type[1] = "application/dash+xml"
    \/ \E i \in 1..Len(resp.text) : resp.text[i] = "<MPD"

\* C9: a VK call issues one or two fetches; the first is a GET of the
\* normalized embed URL; when the probe yields a manifest, the call returns the
\* probe's final URL with the DASH endpoint after that one fetch; the POST to
\* al_video.php comes second, and only after a probe that yielded no manifest.
C9_ProbeThenFallback ==
    \A c \in Calls :
        calls[c].adapter = "vk" =>
            LET f == calls[c].fetches
                r == calls[c].resps
            IN  /\ Len(f) \in 1..2
                /\ Len(r) <= Len(f)
                /\ f[1].method = "GET"
                /\ f[1].url = _normalize(calls[c].url)
                /\ (Len(r) >= 1 /\ ProbeYieldsManifest(r[1])) =>
                        /\ Returned(c)
                        /\ calls[c].outcome.destination_url = r[1].url
                        /\ calls[c].outcome.mediaflow_endpoint = "mpd_manifest_proxy"
                        /\ Len(f) = 1
                /\ Len(f) = 2 =>
                        /\ Len(r) >= 1
                        /\ ~ProbeYieldsManifest(r[1])
                        /\ f[2].method = "POST"
                        /\ \E i \in 1..Len(f[2].url) : f[2].url[i] = "al_video.php"

C9_Witness ==
    \E c \in Calls :
        /\ calls[c].adapter = "vk"
        /\ Len(calls[c].resps) = 1
        /\ calls[c].resps[1].content_type = <<>>
        /\ ProbeYieldsManifest(calls[c].resps[1])
        /\ Returned(c)
        /\ Len(calls[c].fetches) = 1

Playable(node) ==
    /\ node.t = "dict"
    /\ "player" \in DOMAIN node.v
    /\ node.v["player"].t = "dict"
    /\ "params" \in DOMAIN node.v["player"].v
    /\ node.v["player"].v["params"].t = "list"
    /\ Len(node.v["player"].v["params"].v) > 0
    /\ node.v["player"].v["params"].v[1].t = "dict"
    /\ \E k \in ProgKeys \cup HlsKeys :
            NonEmpty(node.v["player"].v["params"].v[1].v, k)

\* some player node of the payload carries a non-empty playable field
HasPlayableNode(json) ==
    /\ json.t = "dict"
    /\ "payload" \in DOMAIN json.v
    /\ json.v["payload"].t = "list"
    /\ \E i \in 1..Len(json.v["payload"].v) :
            /\ json.v["payload"].v[i].t = "list"
            /\ \E j \in 1..Len(json.v["payload"].v[i].v) :
                    Playable(json.v["payload"].v[i].v[j])

\* C10: a VK call fails with 'no ... URL found' only when no player node of the
\* payload carries a non-empty playable field.
C10_FailsOnlyWithoutPlayableNode ==
    \A c \in Calls :
        (GotJson(c) /\ Failed(c, "VK: no DASH MPD, no MP4 and no HLS URL found"))
        => ~HasPlayableNode(JsonOf(c))

====
